---- MODULE Spec2Model ----
(***************************************************************************)
(* Model of the us_visa data-ingestion stage: the MongoDB connector, the   *)
(* data access service (extract + clean), the Parquet saver, the ingestion *)
(* orchestrator (DataIngestion) and the pipeline wrapper                   *)
(* (DataIngestionPipeline.run, main.py).                                   *)
(*                                                                         *)
(* A record set (pandas DataFrame) is [cols |-> set of column names,       *)
(* rows |-> sequence of functions cols -> cell value].  An exception is a  *)
(* sequence of layers, innermost first; USvisaException(e, sys) appends a  *)
(* layer to the exception e it wraps.                                      *)
(***************************************************************************)
EXTENDS Naturals, Integers, Sequences, FiniteSets, TLC

\* ------------------------------------------------------------------ bounds
MaxDocs == 3
MaxRuns == 2
MaxClients == 3
MaxCalls == 5
MaxSplitRows == 6
MaxSaves == 3

\* ------------------------------------------------- configuration constants
\* DATA_INGESTION_TRAIN_TEST_SPLIT_RATIO = 0.2, kept as the exact fraction 1/5
RatioNum == 1
RatioDen == 5

FeatureStorePath == "artifacts/data_ingestion/feature_store/raw.parquet"
TrainingPath == "artifacts/data_ingestion/ingested/train.parquet"
TestingPath == "artifacts/data_ingestion/ingested/test.parquet"
Paths == {FeatureStorePath, TrainingPath, TestingPath}

DataIngestionConfig ==
    [feature_store_file_path |-> FeatureStorePath,
     training_file_path |-> TrainingPath,
     testing_file_path |-> TestingPath]

StartMarker == ">>>>>> stage Data Ingestion stage started <<<<<<"
CompletedMarker == ">>>>>> stage Data Ingestion stage completed <<<<<<"

\* --------------------------------------------------------------- data sets
IdColumn == "_id"
NaN == "NaN"
Sentinel == "na"

\* the non-identifier fields of the documents a collection may hold
DocBodies ==
    { [continent |-> "Asia", has_job_experience |-> "Y"],
      [continent |-> "Asia", has_job_experience |-> "N"],
      [continent |-> Sentinel, has_job_experience |-> "Y"],
      [continent |-> NaN, has_job_experience |-> "Y"] }

ObjectIds ==
    <<"oid1", "oid2", "oid3", "oid4", "oid5", "oid6", "oid7", "oid8", "oid9", "oid10",
      "oid11", "oid12">>

\* the values config/schema.yaml may give for drop_columns
Unhashable == "<nested list>"
DropLists ==
    { {}, {"has_job_experience", "requires_job_training"}, {Unhashable} }

NoFile == [cols |-> {"<absent>"}, rows |-> <<>>]
EmptyFrame == [cols |-> {}, rows |-> <<>>]

\* ------------------------------------------------------- sequence helpers
Range(s) == { s[i] : i \in DOMAIN s }

RECURSIVE SelectIdx(_, _)
\* the rows of s at the positions idx, in the order idx gives
SelectIdx(s, idx) ==
    IF idx = <<>> THEN <<>>
    ELSE <<s[Head(idx)]>> \o SelectIdx(s, Tail(idx))

RECURSIVE Count(_, _)
Count(s, x) ==
    IF s = <<>> THEN 0
    ELSE (IF Head(s) = x THEN 1 ELSE 0) + Count(Tail(s), x)

\* the multiset of the elements of s
BagOf(s) == [x \in Range(s) |-> Count(s, x)]

Restrict(row, cs) == [c \in cs |-> row[c]]

\* ------------------------------------------------------------- exceptions
Raise(type, origin) == << [type |-> type, at |-> origin] >>
\* raise USvisaException(e, sys)
USvisaException(e, origin) == Append(e, [type |-> "USvisaException", at |-> origin])
NoError == <<>>
TypeOf(e) == e[Len(e)].type

\* ----------------------------------------------------------- data extractor
\* pd.DataFrame(list(collection.find()))
\* the columns are the fields of all documents; a field a document lacks is a
\* missing value in its row
export_as_dataframe(docs) ==
    IF docs = <<>> THEN EmptyFrame
    ELSE LET columns == UNION { DOMAIN docs[i] : i \in DOMAIN docs }
         IN [cols |-> columns,
             rows |-> [i \in DOMAIN docs |->
                         [c \in columns |-> IF c \in DOMAIN docs[i] THEN docs[i][c] ELSE NaN]]]

\* ------------------------------------------------------------ data cleaner
remove_mongo_id(df) ==
    IF IdColumn \in df.cols
    THEN [cols |-> df.cols \ {IdColumn},
          rows |-> [i \in DOMAIN df.rows |-> Restrict(df.rows[i], df.cols \ {IdColumn})]]
    ELSE df

replace_na_with_nan(df) ==
    [cols |-> df.cols,
     rows |-> [i \in DOMAIN df.rows |->
                 [c \in df.cols |-> IF df.rows[i][c] = Sentinel THEN NaN ELSE df.rows[i][c]]]]

RECURSIVE KeepFirst(_, _)
KeepFirst(rows, seen) ==
    IF rows = <<>> THEN <<>>
    ELSE IF Head(rows) \in seen THEN KeepFirst(Tail(rows), seen)
    ELSE <<Head(rows)>> \o KeepFirst(Tail(rows), seen \cup {Head(rows)})

drop_duplicates(df) == [cols |-> df.cols, rows |-> KeepFirst(df.rows, {})]

\* ------------------------------------------------------ data access service
get_clean_dataframe_reordered(df) ==
    remove_mongo_id(replace_na_with_nan(drop_duplicates(df)))

get_clean_dataframe_dedup_early(df) ==
    replace_na_with_nan(drop_duplicates(remove_mongo_id(df)))

\* DataAccessService.get_clean_dataframe, the cleaning of an extracted frame
get_clean_dataframe(df) ==
    drop_duplicates(replace_na_with_nan(remove_mongo_id(df)))

\* DataFrame.empty: some axis has length 0
empty_rows_only(df) == Len(df.rows) = 0

empty(df) == df.cols = {} \/ Len(df.rows) = 0

GateFails_unchecked(frame) == FALSE

\* if df.empty: raise USvisaException("Extracted dataframe is empty.", sys)
GateFails(frame) == empty(frame)


\* ---------------------------------------------------------------- splitting
CeilDiv(a, b) == (a + b - 1) \div b

\* sklearn's _validate_shuffle_split for a float test_size and train_size=None:
\* n_test = ceil(test_size * n_samples), n_train = n_samples - n_test
n_test_floor(n) == (n * RatioNum) \div RatioDen

n_test(n) == CeilDiv(n * RatioNum, RatioDen)
n_train(n) == n - n_test(n)

\* the shuffles a generator seeded with random_state may draw for n samples
Shuffles(n) == Permutations(1 .. n)

\* ShuffleSplit: test = permutation[:n_test], train = permutation[n_test:n_test+n_train]
TestIndices(perm, n) == SubSeq(perm, 1, n_test(n))
TrainIndices(perm, n) == SubSeq(perm, n_test(n) + 1, n_test(n) + n_train(n))

\* train_test_split raises ValueError when the train set would be empty
SplitFails(dataframe) == n_train(Len(dataframe.rows)) = 0

train_test_split_swapped(dataframe, perm) ==
    [train |-> [cols |-> dataframe.cols,
                rows |-> SelectIdx(dataframe.rows, TestIndices(perm, Len(dataframe.rows)))],
     test |-> [cols |-> dataframe.cols,
               rows |-> SelectIdx(dataframe.rows, TrainIndices(perm, Len(dataframe.rows)))]]

\* train_set, test_set = train_test_split(dataframe, test_size=..., random_state=42)
train_test_split(dataframe, perm) ==
    [train |-> [cols |-> dataframe.cols,
                rows |-> SelectIdx(dataframe.rows, TrainIndices(perm, Len(dataframe.rows)))],
     test |-> [cols |-> dataframe.cols,
               rows |-> SelectIdx(dataframe.rows, TestIndices(perm, Len(dataframe.rows)))]]

\* dataframe.drop(columns=drop_columns, errors="ignore") behind `if drop_columns:`
DropColumns_none(dataframe, drop_columns) == dataframe

DropColumns(dataframe, drop_columns) ==
    IF drop_columns = {} THEN dataframe
    ELSE [cols |-> dataframe.cols \ drop_columns,
          rows |-> [i \in DOMAIN dataframe.rows |->
                      Restrict(dataframe.rows[i], dataframe.cols \ drop_columns)]]

DropFails_errors_raise(dataframe, drop_columns) ==
    Unhashable \in drop_columns \/ ~(drop_columns \subseteq dataframe.cols)

\* dataframe.drop(..., errors="ignore") raises only for labels that are not hashable
DropFails(dataframe, drop_columns) == Unhashable \in drop_columns

\* ------------------------------------------------------------------- state
VARIABLES
    collection,     \* the documents of the MongoDB collection, in cursor order
    schema_drop,    \* _schema_config.get("drop_columns", [])
    files,          \* the file system: path -> record set held (NoFile: absent)
    dirs,           \* the directories that exist
    saves,          \* the successful saves made directly by other callers, in order
    shared_client,  \* MongoDBClient._shared_client (None or a driver handle)
    client,         \* MongoDBClient instance -> its _client
    constructed,    \* number of pymongo.MongoClient objects constructed so far
    calls,          \* number of connector calls made directly by other callers
    last_call,      \* the last connector call and how it ended
    seeded,         \* n -> the permutation RandomState(42) yields for n samples
    caller,         \* "main" (main.py) or "direct" (a caller of run())
    pc,             \* where the current run stands
    run,            \* number of runs of DataIngestionPipeline.run started
    df,             \* the cleaned record set of the current run
    pruned,         \* the record set after column pruning
    train_set,
    test_set,
    exc,            \* the exception in flight (NoError: none)
    artifact,       \* the DataIngestionArtifact returned (NoArtifact: none)
    steps,          \* the orchestration steps the current run has begun, in order
    log,            \* the log lines written since the current run was entered
    start_files,    \* the file system as it was when the current run was entered
    completed       \* what each successful run of this process read and wrote

vars == <<collection, schema_drop, files, dirs, saves, shared_client, client, constructed,
          calls, last_call, seeded, caller, pc, run, df, pruned, train_set, test_set, exc,
          artifact, steps, log, start_files, completed>>

connVars == <<shared_client, client, constructed>>
runVars == <<pc, run, df, pruned, train_set, test_set, exc, artifact, steps, log,
             start_files, completed>>

None == 0
Clients == 1 .. MaxClients
\* the MongoDBClient the pipeline's DataIngestion builds for its extractor
PipelineClient == 1
NoArtifact == [raw_file_path |-> "", train_file_path |-> "", test_file_path |-> ""]
NoCall == [op |-> "none", inst |-> 0, ok |-> TRUE]

\* ------------------------------------------------------- database connector
\* MongoDBClient.connect on instance i; driverOk: pymongo.MongoClient(...) succeeds
connect_reconnecting(sh, cl, n, i, driverOk) ==
    IF driverOk
    THEN [shared |-> n + 1, client |-> [cl EXCEPT ![i] = n + 1], constructed |-> n + 1,
          exc |-> NoError]
    ELSE [shared |-> sh, client |-> cl, constructed |-> n,
          exc |-> USvisaException(Raise("PyMongoError", "pymongo.MongoClient"),
                                  "MongoDBClient.connect")]

connect(sh, cl, n, i, driverOk) ==
    IF sh = None
    THEN IF driverOk
         THEN [shared |-> n + 1, client |-> [cl EXCEPT ![i] = n + 1],
               constructed |-> n + 1, exc |-> NoError]
         ELSE [shared |-> sh, client |-> cl, constructed |-> n,
               exc |-> USvisaException(Raise("PyMongoError", "pymongo.MongoClient"),
                                       "MongoDBClient.connect")]
    ELSE [shared |-> sh, client |-> [cl EXCEPT ![i] = sh], constructed |-> n,
          exc |-> NoError]

\* MongoDBClient.get_database on instance i
get_database(sh, cl, n, i, driverOk) ==
    IF cl[i] = None
    THEN connect(sh, cl, n, i, driverOk)
    ELSE [shared |-> sh, client |-> cl, constructed |-> n, exc |-> NoError]

\* ---------------------------------------------------------------- data saver
\* a path without a directory part, as a direct caller of the saver may pass
BarePath == "raw.parquet"
SavePaths == Paths \cup {BarePath}

\* the working directory of the process
Cwd == "."
NoDirs == {Cwd}

\* os.path.dirname(file_path)
dirname(file_path) ==
    CASE file_path = FeatureStorePath -> "artifacts/data_ingestion/feature_store"
      [] file_path \in {TrainingPath, TestingPath} -> "artifacts/data_ingestion/ingested"
      [] file_path = BarePath -> ""

\* os.makedirs(dir_path, exist_ok=True): the directory and its missing ancestors
makedirs(ds, dir_path) ==
    ds \cup {"artifacts", "artifacts/data_ingestion", dir_path}

\* how far a call gets: it returns, it raises before any directory is made, or
\* to_parquet raises once the directory is there
SaveOutcomes == {"ok", "fails_early", "fails_writing"}

save_keep_existing(fs, ds, data, file_path, outcome) ==
    LET dir_path == dirname(file_path)
        made == IF dir_path # "" THEN makedirs(ds, dir_path) ELSE ds
    IN CASE outcome = "ok" ->
              [files |-> IF fs[file_path] = NoFile THEN [fs EXCEPT ![file_path] = data] ELSE fs,
               dirs |-> made, exc |-> NoError]
         [] outcome = "fails_early" ->
              [files |-> fs, dirs |-> ds, exc |-> Raise("RuntimeError", "ParquetDataSaver.save")]
         [] outcome = "fails_writing" ->
              [files |-> fs, dirs |-> made, exc |-> Raise("RuntimeError", "ParquetDataSaver.save")]

\* ParquetDataSaver.save: the file system after the call, and what it raised
\* (a save that fails leaves the path as it was)
save(fs, ds, data, file_path, outcome) ==
    LET dir_path == dirname(file_path)
        made == IF dir_path # "" THEN makedirs(ds, dir_path) ELSE ds
    IN CASE outcome = "ok" ->
              [files |-> [fs EXCEPT ![file_path] = data], dirs |-> made, exc |-> NoError]
         [] outcome = "fails_early" ->
              [files |-> fs, dirs |-> ds, exc |-> Raise("RuntimeError", "ParquetDataSaver.save")]
         [] outcome = "fails_writing" ->
              [files |-> fs, dirs |-> made, exc |-> Raise("RuntimeError", "ParquetDataSaver.save")]

\* ------------------------------------------------- exception boundaries
ExtractorBoundary(e) == USvisaException(e, "MongoDataExtractor.export_as_dataframe")
ServiceBoundary(e) == USvisaException(e, "DataAccessService.get_clean_dataframe")
ExportBoundary(e) == USvisaException(e, "DataIngestion.export_data_into_feature_store")
SplitBoundary(e) == USvisaException(e, "DataIngestion.split_data_as_train_test")
InitiateBoundary(e) == USvisaException(e, "DataIngestion.initiate_data_ingestion")

run_except_reraise(e) == e
\* DataIngestionPipeline.run: except Exception as e: raise USvisaException(e, sys)
run_except(e) == USvisaException(e, "DataIngestionPipeline.run")

\* what the except clause of DataIngestionPipeline.run logs: nothing
run_except_log == <<>>

ErrService == "ERROR Error while getting clean dataframe"
ErrExport == "ERROR Failed to export data into feature store"
ErrSplit == "ERROR Failed to split data into train/test sets"
ErrInitiate == "ERROR Data ingestion pipeline failed"
ErrSaver == "ERROR Failed to save Parquet data"

\* ------------------------------------------------------------ control flow
StepOrder_split_first ==
    <<"fetch", "gate", "prune", "split", "save_raw", "save_train", "save_test", "artifact">>

StepOrder_test_first ==
    <<"fetch", "gate", "save_raw", "prune", "split", "save_test", "save_train", "artifact">>

\* the statements of initiate_data_ingestion, export_data_into_feature_store and
\* split_data_as_train_test in program order
StepOrder ==
    <<"fetch", "gate", "save_raw", "prune", "split", "save_train", "save_test", "artifact">>

PositionOf(step) == CHOOSE i \in DOMAIN StepOrder : StepOrder[i] = step

\* where control goes when `step` completes without raising
After(step) ==
    IF PositionOf(step) = Len(StepOrder) THEN "returned"
    ELSE StepOrder[PositionOf(step) + 1]

Fails_swallowed(e, lines) ==
    /\ exc' = NoError
    /\ log' = log \o lines
    /\ pc' = After(pc)

\* a step raised: every enclosing handler logs and wraps, nothing else runs
Fails(e, lines) ==
    /\ exc' = e
    /\ log' = log \o lines
    /\ pc' = "raised"

Begin(step) ==
    /\ pc = step
    /\ steps' = Append(steps, step)

\* ------------------------------------------------------------------ actions
NoFiles == [p \in Paths |-> NoFile]

Init ==
    /\ collection = <<>>
    /\ schema_drop \in DropLists
    /\ files = NoFiles /\ dirs = NoDirs /\ saves = <<>>
    /\ shared_client = None
    /\ client = [i \in Clients |-> None]
    /\ constructed = 0
    /\ calls = 0
    /\ last_call = NoCall
    /\ seeded = <<>>
    /\ caller \in {"main", "direct"}
    /\ pc = IF caller = "main" THEN "main" ELSE "idle"
    /\ run = 0
    /\ df = EmptyFrame
    /\ pruned = EmptyFrame
    /\ train_set = EmptyFrame
    /\ test_set = EmptyFrame
    /\ exc = NoError
    /\ artifact = NoArtifact
    /\ steps = <<>>
    /\ log = <<>>
    /\ start_files = files
    /\ completed = <<>>

BetweenRuns == pc \in {"main", "idle", "run_returned", "run_raised"}

Document(body, oid) ==
    [f \in DOMAIN body \cup {IdColumn} |-> IF f = IdColumn THEN oid ELSE body[f]]

\* the store gains a document (outside this program, between runs)
InsertDocument ==
    /\ BetweenRuns
    /\ Len(collection) < MaxDocs
    /\ \E body \in DocBodies :
         collection' = Append(collection, Document(body, ObjectIds[Len(collection) + 1]))
    /\ UNCHANGED <<schema_drop, files, dirs, saves, connVars, calls, last_call, seeded, caller, runVars>>

\* main.py: the start marker, then DataIngestionPipeline()
MainStart ==
    /\ caller = "main"
    /\ pc = "main"
    /\ log' = <<StartMarker>>
    /\ pc' = "main_started"
    /\ UNCHANGED <<collection, schema_drop, files, dirs, saves, connVars, calls, last_call, seeded,
                   caller, run, df, pruned, train_set, test_set, exc, artifact, steps,
                   start_files, completed>>

\* DataIngestionPipeline.run is entered and logs its start marker
RunStart ==
    /\ \/ caller = "main" /\ pc = "main_started"
       \/ caller = "direct" /\ pc \in {"idle", "run_returned", "run_raised"}
    /\ run < MaxRuns
    /\ run' = run + 1
    /\ log' = (IF caller = "main" THEN log ELSE <<>>) \o <<StartMarker>>
    /\ pc' = StepOrder[1]
    /\ steps' = <<>>
    /\ exc' = NoError
    /\ artifact' = NoArtifact
    /\ df' = EmptyFrame
    /\ pruned' = EmptyFrame
    /\ train_set' = EmptyFrame
    /\ test_set' = EmptyFrame
    /\ start_files' = files
    /\ UNCHANGED <<collection, schema_drop, files, dirs, saves, connVars, calls, last_call, seeded,
                   caller, completed>>

\* self.service.get_clean_dataframe(self.config.collection_name)
FetchClean ==
    /\ Begin("fetch")
    /\ \E driverOk \in BOOLEAN, findOk \in BOOLEAN, cleanOk \in BOOLEAN :
         LET db == get_database(shared_client, client, constructed, PipelineClient, driverOk)
         IN /\ shared_client' = db.shared
            /\ client' = db.client
            /\ constructed' = db.constructed
            /\ IF db.exc # NoError
               THEN /\ Fails(InitiateBoundary(ExportBoundary(ServiceBoundary(
                                ExtractorBoundary(db.exc)))),
                             <<ErrService, ErrExport, ErrInitiate>>)
                    /\ df' = df
               ELSE IF ~findOk
               THEN /\ Fails(InitiateBoundary(ExportBoundary(ServiceBoundary(
                                ExtractorBoundary(Raise("PyMongoError", "collection.find"))))),
                             <<ErrService, ErrExport, ErrInitiate>>)
                    /\ df' = df
               ELSE IF ~cleanOk
               THEN /\ Fails(InitiateBoundary(ExportBoundary(ServiceBoundary(
                                Raise("Exception", "DataCleaner")))),
                             <<ErrService, ErrExport, ErrInitiate>>)
                    /\ df' = df
               ELSE /\ df' = get_clean_dataframe(export_as_dataframe(collection))
                    /\ log' = Append(log, "INFO Duplicate rows removed")
                    /\ exc' = exc
                    /\ pc' = After("fetch")
    /\ UNCHANGED <<collection, schema_drop, files, dirs, saves, calls, last_call, seeded, caller, run,
                   pruned, train_set, test_set, artifact, start_files, completed>>

\* if df.empty: raise USvisaException("Extracted dataframe is empty.", sys)
Gate ==
    /\ Begin("gate")
    /\ IF GateFails(df)
       THEN Fails(InitiateBoundary(ExportBoundary(
                    Raise("USvisaException", "Extracted dataframe is empty."))),
                  <<ErrExport, ErrInitiate>>)
       ELSE /\ pc' = After("gate")
            /\ UNCHANGED <<exc, log>>
    /\ UNCHANGED <<collection, schema_drop, files, dirs, saves, connVars, calls, last_call, seeded,
                   caller, run, df, pruned, train_set, test_set, artifact, start_files,
                   completed>>

\* self.saver.save(df, self.config.feature_store_file_path)
SaveFeatureStore ==
    /\ Begin("save_raw")
    /\ \E outcome \in SaveOutcomes :
         LET r == save(files, dirs, df, DataIngestionConfig.feature_store_file_path, outcome)
         IN /\ files' = r.files
            /\ dirs' = r.dirs
            /\ IF r.exc # NoError
               THEN Fails(InitiateBoundary(ExportBoundary(r.exc)),
                          <<ErrSaver, ErrExport, ErrInitiate>>)
               ELSE /\ log' = Append(log, "INFO Data saved to feature store")
                    /\ pc' = After("save_raw")
                    /\ exc' = exc
    /\ UNCHANGED <<collection, schema_drop, saves, connVars, calls, last_call, seeded, caller,
                   run, df, pruned, train_set, test_set, artifact, start_files, completed>>

\* drop_columns = self._schema_config.get("drop_columns", []); dataframe.drop(...)
Prune ==
    /\ Begin("prune")
    /\ IF DropFails(df, schema_drop)
       THEN /\ Fails(InitiateBoundary(SplitBoundary(Raise("TypeError", "DataFrame.drop"))),
                     <<ErrSplit, ErrInitiate>>)
            /\ pruned' = pruned
       ELSE /\ pruned' = DropColumns(df, schema_drop)
            /\ pc' = After("prune")
            /\ UNCHANGED <<exc, log>>
    /\ UNCHANGED <<collection, schema_drop, files, dirs, saves, connVars, calls, last_call, seeded,
                   caller, run, df, train_set, test_set, artifact, start_files, completed>>

SeededShuffles_unseeded(n) == Shuffles(n)

\* random_state=42: the same permutation every time n samples are shuffled
SeededShuffles(n) == IF n \in DOMAIN seeded THEN {seeded[n]} ELSE Shuffles(n)

\* train_test_split(dataframe, test_size=..., random_state=42)
Split ==
    /\ Begin("split")
    /\ IF SplitFails(pruned)
       THEN /\ Fails(InitiateBoundary(SplitBoundary(Raise("ValueError", "train_test_split"))),
                     <<ErrSplit, ErrInitiate>>)
            /\ UNCHANGED <<train_set, test_set, seeded>>
       ELSE \E perm \in SeededShuffles(Len(pruned.rows)) :
              /\ seeded' = (Len(pruned.rows) :> perm) @@ seeded
              /\ train_set' = train_test_split(pruned, perm).train
              /\ test_set' = train_test_split(pruned, perm).test
              /\ pc' = After("split")
              /\ UNCHANGED <<exc, log>>
    /\ UNCHANGED <<collection, schema_drop, files, dirs, saves, connVars, calls, last_call, caller, run,
                   df, pruned, artifact, start_files, completed>>

SaveSplit(step, data, file_path) ==
    /\ Begin(step)
    /\ \E outcome \in SaveOutcomes :
         LET r == save(files, dirs, data, file_path, outcome)
         IN /\ files' = r.files
            /\ dirs' = r.dirs
            /\ IF r.exc # NoError
               THEN Fails(InitiateBoundary(SplitBoundary(r.exc)),
                          <<ErrSaver, ErrSplit, ErrInitiate>>)
               ELSE /\ log' = Append(log, "INFO Parquet data saved")
                    /\ pc' = After(step)
                    /\ exc' = exc
    /\ UNCHANGED <<collection, schema_drop, saves, connVars, calls, last_call, seeded, caller,
                   run, df, pruned, train_set, test_set, artifact, start_files, completed>>

\* self.saver.save(train_set, self.config.training_file_path)
SaveTrain == SaveSplit("save_train", train_set, DataIngestionConfig.training_file_path)

\* self.saver.save(test_set, self.config.testing_file_path)
SaveTest == SaveSplit("save_test", test_set, DataIngestionConfig.testing_file_path)

\* artifact = DataIngestionArtifact(...); return artifact
EmitArtifact ==
    /\ Begin("artifact")
    /\ artifact' = [raw_file_path |-> DataIngestionConfig.feature_store_file_path,
                    train_file_path |-> DataIngestionConfig.training_file_path,
                    test_file_path |-> DataIngestionConfig.testing_file_path]
    /\ log' = Append(log, "INFO Data ingestion artifact created")
    /\ pc' = After("artifact")
    /\ completed' = Append(completed,
         [input |-> df, drop |-> schema_drop,
          raw |-> files[FeatureStorePath],
          train |-> files[TrainingPath], test |-> files[TestingPath]])
    /\ UNCHANGED <<collection, schema_drop, files, dirs, saves, connVars, calls, last_call, seeded,
                   caller, run, df, pruned, train_set, test_set, exc, start_files>>

\* orchestrator.execute() returned: execute logs the artifact, run the completion marker
RunComplete ==
    /\ pc = "returned"
    /\ log' = log \o <<"INFO Artifact", CompletedMarker>>
    /\ pc' = "run_returned"
    /\ UNCHANGED <<collection, schema_drop, files, dirs, saves, connVars, calls, last_call, seeded,
                   caller, run, df, pruned, train_set, test_set, exc, artifact, steps,
                   start_files, completed>>

\* orchestrator.execute() raised: the except clause of run
RunExcept ==
    /\ pc = "raised"
    /\ log' = log \o run_except_log
    /\ exc' = run_except(exc)
    /\ pc' = "run_raised"
    /\ UNCHANGED <<collection, schema_drop, files, dirs, saves, connVars, calls, last_call, seeded,
                   caller, run, df, pruned, train_set, test_set, artifact, steps,
                   start_files, completed>>

\* main.py after obj.run(): the completion marker, or logging.exception and re-raise
MainEnd ==
    /\ caller = "main"
    /\ pc \in {"run_returned", "run_raised"}
    /\ IF pc = "run_returned"
       THEN /\ log' = Append(log, CompletedMarker)
            /\ pc' = "exit_zero"
            /\ exc' = exc
       ELSE /\ log' = Append(log, "ERROR exception")
            /\ exc' = USvisaException(exc, "main")
            /\ pc' = "exit_nonzero"
    /\ UNCHANGED <<collection, schema_drop, files, dirs, saves, connVars, calls, last_call, seeded,
                   caller, run, df, pruned, train_set, test_set, artifact, steps,
                   start_files, completed>>

Next ==
    \/ InsertDocument
    \/ MainStart
    \/ RunStart
    \/ FetchClean
    \/ Gate
    \/ SaveFeatureStore
    \/ Prune
    \/ Split
    \/ SaveTrain
    \/ SaveTest
    \/ EmitArtifact
    \/ RunComplete
    \/ RunExcept
    \/ MainEnd

Spec == Init /\ [][Next]_vars

\* ------------------------------------------- the connector called directly
\* some caller invokes connect() on the MongoDBClient instance i
ConnectCall(i) ==
    /\ calls < MaxCalls
    /\ \E driverOk \in BOOLEAN :
         LET r == connect(shared_client, client, constructed, i, driverOk)
         IN /\ shared_client' = r.shared
            /\ client' = r.client
            /\ constructed' = r.constructed
            /\ last_call' = [op |-> "connect", inst |-> i, ok |-> r.exc = NoError]
    /\ calls' = calls + 1
    /\ UNCHANGED <<collection, schema_drop, files, dirs, saves, seeded, caller, runVars>>

\* some caller invokes get_database() on the MongoDBClient instance i
GetDatabaseCall(i) ==
    /\ calls < MaxCalls
    /\ \E driverOk \in BOOLEAN :
         LET r == get_database(shared_client, client, constructed, i, driverOk)
         IN /\ shared_client' = r.shared
            /\ client' = r.client
            /\ constructed' = r.constructed
            /\ last_call' = [op |-> "get_database", inst |-> i, ok |-> r.exc = NoError]
    /\ calls' = calls + 1
    /\ UNCHANGED <<collection, schema_drop, files, dirs, saves, seeded, caller, runVars>>

InitConn == Init /\ caller = "direct" /\ schema_drop = {}

NextConn == \E i \in Clients : ConnectCall(i) \/ GetDatabaseCall(i)

\* any sequence of connect() and get_database() calls on the instances of a process
SpecConn == InitConn /\ [][NextConn]_vars

\* ---------------------------------------------------- the split on its own
SplitShapes == {"distinct", "paired"}

\* a pruned record set of n rows: all different, or equal two by two
SplitInput(n, shape) ==
    [cols |-> {"case_id"},
     rows |-> [i \in 1 .. n |->
                 [c \in {"case_id"} |->
                    IF shape = "distinct" THEN ObjectIds[i] ELSE ObjectIds[(i + 1) \div 2]]]]

InitSplit ==
    /\ collection = <<>> /\ schema_drop = {} /\ files = NoFiles /\ dirs = NoDirs /\ saves = <<>>
    /\ shared_client = None /\ client = [i \in Clients |-> None] /\ constructed = 0
    /\ calls = 0 /\ last_call = NoCall /\ seeded = <<>> /\ caller = "direct"
    /\ pc = "split" /\ run = 1 /\ df = EmptyFrame
    /\ pruned \in { SplitInput(n, shape) : n \in 1 .. MaxSplitRows, shape \in SplitShapes }
    /\ train_set = EmptyFrame /\ test_set = EmptyFrame /\ exc = NoError
    /\ artifact = NoArtifact /\ steps = <<"fetch", "gate", "save_raw", "prune">>
    /\ log = <<>> /\ start_files = NoFiles /\ completed = <<>>

NextSplit == Split

\* the split step applied to every record set that can pass the empty-result gate
SpecSplit == InitSplit /\ [][NextSplit]_vars

\* ------------------------------------------------------ the saver alone
\* the record sets direct callers save: no, one or two rows
SaveFrames == { SplitInput(n, "distinct") : n \in 0 .. 2 }

\* what a path may hold before the first call
StaleFrame == SplitInput(3, "paired")

\* saver.save(data, file_path) called by any caller, with any outcome
SaveCall ==
    /\ Len(saves) < MaxSaves
    /\ \E file_path \in SavePaths, data \in SaveFrames, outcome \in SaveOutcomes :
         LET r == save(files, dirs, data, file_path, outcome)
         IN /\ files' = r.files
            /\ dirs' = r.dirs
            /\ exc' = r.exc
            /\ saves' = IF r.exc = NoError
                        THEN Append(saves, [file_path |-> file_path, data |-> data,
                                            before |-> files[file_path]])
                        ELSE saves
    /\ UNCHANGED <<collection, schema_drop, connVars, calls, last_call, seeded, caller, pc,
                   run, df, pruned, train_set, test_set, artifact, steps, log, start_files,
                   completed>>

\* a file system in which any of the paths may already hold a file, its
\* directory then being there
InitSave ==
    /\ collection = <<>> /\ schema_drop = {}
    /\ files \in [SavePaths -> {NoFile, StaleFrame}]
    /\ dirs = UNION { IF files[p] = NoFile \/ dirname(p) = ""
                      THEN NoDirs ELSE makedirs(NoDirs, dirname(p)) : p \in SavePaths }
    /\ saves = <<>>
    /\ shared_client = None /\ client = [i \in Clients |-> None] /\ constructed = 0
    /\ calls = 0 /\ last_call = NoCall /\ seeded = <<>> /\ caller = "direct"
    /\ pc = "idle" /\ run = 0 /\ df = EmptyFrame /\ pruned = EmptyFrame
    /\ train_set = EmptyFrame /\ test_set = EmptyFrame /\ exc = NoError
    /\ artifact = NoArtifact /\ steps = <<>>
    /\ log = <<>> /\ start_files = NoFiles /\ completed = <<>>

NextSave == SaveCall

\* any sequence of at most MaxSaves successful calls of ParquetDataSaver.save,
\* failing calls among them
SpecSave == InitSave /\ [][NextSave]_vars

\* ------------------------------------------------ cleaning and the gate
\* a document that carries nothing but its identifier
IdOnly == <<>>

CleanBodies == DocBodies \cup {IdOnly}

CleanStores ==
    UNION { { [p \in 1 .. n |-> Document(bodies[p], ObjectIds[p])] :
                bodies \in [1 .. n -> CleanBodies] } : n \in 0 .. MaxDocs }

InitClean ==
    /\ collection \in CleanStores
    /\ schema_drop = {} /\ files = NoFiles /\ dirs = NoDirs /\ saves = <<>>
    /\ shared_client = None /\ client = [i \in Clients |-> None] /\ constructed = 0
    /\ calls = 0 /\ last_call = NoCall /\ seeded = <<>> /\ caller = "direct"
    /\ pc = "fetch" /\ run = 1 /\ df = EmptyFrame /\ pruned = EmptyFrame
    /\ train_set = EmptyFrame /\ test_set = EmptyFrame /\ exc = NoError
    /\ artifact = NoArtifact /\ steps = <<>>
    /\ log = <<>> /\ start_files = NoFiles /\ completed = <<>>

NextClean ==
    \/ FetchClean
    \/ Gate

\* export_data_into_feature_store up to its gate, for every store of at most
\* MaxDocs documents
SpecClean == InitClean /\ [][NextClean]_vars

\* ------------------------------------------------- one run, end to end
E2EContinents == <<"Asia", "Africa", "Europe", "Oceania">>
E2EVariants == {"plain", "sentinel_pair"}

\* nine documents' fields, no two equal: seven without a missing value, one whose
\* continent is the "na" sentinel, and one that is either a further continent or
\* the same document with the canonical missing value in place of "na"
E2EBody(k, variant) ==
    IF k <= 7
    THEN [continent |-> E2EContinents[(k + 1) \div 2],
          has_job_experience |-> IF k % 2 = 1 THEN "Y" ELSE "N"]
    ELSE IF k = 8 THEN [continent |-> Sentinel, has_job_experience |-> "N"]
    ELSE IF variant = "plain" THEN [continent |-> "South America", has_job_experience |-> "N"]
    ELSE [continent |-> NaN, has_job_experience |-> "N"]

\* ten documents: the nine above in order, with a copy of document i put at place j
E2ECollection(i, j, variant) ==
    [p \in 1 .. 10 |->
        Document(E2EBody(IF p = j THEN i ELSE IF p < j THEN p ELSE p - 1, variant),
                 ObjectIds[p])]

\* a sample of the permutations of 1 .. n: its rotations
Rotations(n) == { [i \in 1 .. n |-> ((i + k - 1) % n) + 1] : k \in 0 .. (n - 1) }

\* main.py run once against a store of ten documents with drop_columns: []
InitE2E ==
    /\ \E i \in 1 .. 9 : \E j \in (i + 1) .. 10 : \E variant \in E2EVariants :
         collection = E2ECollection(i, j, variant)
    /\ schema_drop = {}
    /\ files = NoFiles /\ dirs = NoDirs /\ saves = <<>>
    /\ shared_client = None /\ client = [i \in Clients |-> None] /\ constructed = 0
    /\ calls = 0 /\ last_call = NoCall
    /\ \E perm \in Rotations(Len(get_clean_dataframe(export_as_dataframe(collection)).rows)) :
         seeded = (Len(perm) :> perm)
    /\ caller = "main" /\ pc = "main" /\ run = 0
    /\ df = EmptyFrame /\ pruned = EmptyFrame
    /\ train_set = EmptyFrame /\ test_set = EmptyFrame /\ exc = NoError
    /\ artifact = NoArtifact /\ steps = <<>>
    /\ log = <<>> /\ start_files = NoFiles /\ completed = <<>>

NextE2E ==
    \/ MainStart
    \/ RunStart
    \/ FetchClean
    \/ Gate
    \/ SaveFeatureStore
    \/ Prune
    \/ Split
    \/ SaveTrain
    \/ SaveTest
    \/ EmitArtifact
    \/ RunComplete
    \/ RunExcept
    \/ MainEnd

SpecE2E == InitE2E /\ [][NextE2E]_vars

\* ================================================================== claims
Failed == {"raised", "run_raised", "exit_nonzero"}
Last(s) == s[Len(s)]
HasRun(step) == step \in Range(steps)
\* the step was begun and did not raise
Succeeded(step) == HasRun(step) /\ ~(pc \in Failed /\ Last(steps) = step)
SaveSteps == {"save_raw", "save_train", "save_test"}
\* the lines the except clauses log
ErrorLines == {ErrService, ErrExport, ErrSplit, ErrInitiate, ErrSaver}

\* C1: when the cleaned record set is empty, the run ends by raising
\* USvisaException, the saver has not been called, and every file is as it was
\* when the run was entered.
C1_EmptyResultRaisesBeforeAnyWrite ==
    (HasRun("gate") /\ empty(df)) =>
        /\ pc \in Failed
        /\ exc # NoError
        /\ TypeOf(exc) = "USvisaException"
        /\ Range(steps) \cap SaveSteps = {}
        /\ files = start_files
        /\ artifact = NoArtifact

C1_Witness ==
    /\ pc = "run_raised"
    /\ steps = <<"fetch", "gate">>
    /\ empty(df)
    /\ exc[1].at = "Extracted dataframe is empty."

\* C2: the steps of a run happen in the order fetch+clean, (gate,) snapshot save,
\* prune, split, train save, test save, artifact; an artifact exists only once
\* all three saves have succeeded, and it names the three configured paths.
C2_ClaimedOrder ==
    <<"fetch", "gate", "save_raw", "prune", "split", "save_train", "save_test", "artifact">>

C2_FixedStepOrder ==
    /\ Len(steps) <= Len(C2_ClaimedOrder)
    /\ steps = SubSeq(C2_ClaimedOrder, 1, Len(steps))
    /\ artifact # NoArtifact =>
         /\ steps = C2_ClaimedOrder
         /\ files[FeatureStorePath] = df
         /\ files[TrainingPath] = train_set
         /\ files[TestingPath] = test_set
         /\ artifact = [raw_file_path |-> FeatureStorePath,
                        train_file_path |-> TrainingPath,
                        test_file_path |-> TestingPath]
    /\ pc \in {"returned", "run_returned", "exit_zero"} => artifact # NoArtifact

C2_Witness ==
    /\ pc = "run_returned"
    /\ artifact # NoArtifact
    /\ Len(train_set.rows) = 2
    /\ Len(test_set.rows) = 1

\* C3: a failure at any step ends the run with USvisaException raised: it is
\* not swallowed, no artifact is returned, no later step runs, and no step runs
\* twice.
C3_FailureState ==
    /\ pc \in Failed =>
         /\ exc # NoError
         /\ TypeOf(exc) = "USvisaException"
         /\ artifact = NoArtifact
    /\ pc \notin Failed => exc = NoError
    /\ Range(log) \cap ErrorLines # {} => pc \in Failed
    /\ \A i, j \in DOMAIN steps : steps[i] = steps[j] => i = j

C3_FailureStep ==
    /\ (pc \in Failed /\ run' = run) => (steps' = steps /\ pc' \in Failed /\ files' = files)
    /\ (pc' = "raised" /\ pc # "raised") =>
         (steps' = Append(steps, pc) /\ exc = NoError)

\* C3: in every state and at every step, a failure ends the run as stated above.
C3_FailureAbortsRun == [](C3_FailureState) /\ [][C3_FailureStep]_vars

C3_Witness ==
    /\ pc = "run_raised"
    /\ Last(steps) = "save_test"
    /\ exc[1].type = "RuntimeError"
    /\ files[TrainingPath] # NoFile

\* C4: a run entered with no output file that fails at pruning or at the split
\* leaves the feature-store file holding the full cleaned set and no train or
\* test file; a failing run leaves every file it has written as it wrote it.
C4_PartialFailureState ==
    /\ (pc \in Failed /\ start_files = NoFiles /\ Last(steps) \in {"prune", "split"}) =>
         /\ files[FeatureStorePath] = df
         /\ ~empty(df)
         /\ files[TrainingPath] = NoFile
         /\ files[TestingPath] = NoFile
    /\ pc \in Failed =>
         /\ Succeeded("save_raw") => files[FeatureStorePath] = df
         /\ Succeeded("save_train") => files[TrainingPath] = train_set
         /\ \A p \in Paths : start_files[p] # NoFile => files[p] # NoFile

C4_Witness ==
    /\ pc = "run_raised"
    /\ start_files = NoFiles
    /\ Last(steps) = "split"
    /\ files[FeatureStorePath] = df
    /\ Len(df.rows) = 1

\* C5 (as claimed): for every record set of N >= 1 rows the split step succeeds,
\* with floor(N*(1-ratio)) train rows, the other rows in test, and train and test
\* together the input as a multiset.
SplitDone == pc # "split"
SplitSizesAndRows ==
    /\ pc = "save_train"
    /\ exc = NoError
    /\ Len(train_set.rows) = (Len(pruned.rows) * (RatioDen - RatioNum)) \div RatioDen
    /\ Len(test_set.rows) = Len(pruned.rows) - Len(train_set.rows)
    /\ BagOf(train_set.rows \o test_set.rows) = BagOf(pruned.rows)
    /\ train_set.cols = pruned.cols
    /\ test_set.cols = pruned.cols

C5_SplitSucceedsForEveryN ==
    (SplitDone /\ Len(pruned.rows) >= 1) => SplitSizesAndRows

\* C5 (amended): for N >= 2 rows the split step succeeds with floor(N*(1-ratio))
\* train rows, the remaining rows in test and train + test the input as a
\* multiset; for N = 1 the train set would be empty and the step raises.
C5_SplitSizes ==
    /\ (SplitDone /\ Len(pruned.rows) >= 2) => SplitSizesAndRows
    /\ (SplitDone /\ Len(pruned.rows) = 1) =>
         /\ pc = "raised"
         /\ exc[1].type = "ValueError"
         /\ TypeOf(exc) = "USvisaException"
         /\ train_set = EmptyFrame
         /\ test_set = EmptyFrame

C5_Witness ==
    /\ pc = "save_train"
    /\ Len(pruned.rows) = 6
    /\ Len(train_set.rows) = 4
    /\ Len(test_set.rows) = 2
    /\ Cardinality(Range(pruned.rows)) = 6

\* C6: two successful runs over the same cleaned record set and the same drop
\* list write the same train file and the same test file.
C6_SplitIsDeterministic ==
    \A a, b \in DOMAIN completed :
        (completed[a].input = completed[b].input /\ completed[a].drop = completed[b].drop) =>
            /\ completed[a].train = completed[b].train
            /\ completed[a].test = completed[b].test

C6_Witness ==
    /\ Len(completed) >= 2
    /\ completed[1].input = completed[2].input
    /\ Len(completed[1].input.rows) = 3
    /\ completed[1].train = completed[2].train
    /\ pc = "run_returned"

\* C7: pruning removes exactly the columns that are in drop_columns and in the
\* data, leaves every row otherwise as it was, and does not fail on a name the
\* data lacks: the run then goes on to return the artifact.
AbsentName == "requires_job_training"

C7_PruneDropsPresentNamesOnly ==
    /\ Succeeded("prune") =>
         /\ pruned.cols = df.cols \ (schema_drop \cap df.cols)
         /\ Len(pruned.rows) = Len(df.rows)
         /\ \A i \in DOMAIN df.rows : \A c \in pruned.cols : pruned.rows[i][c] = df.rows[i][c]
         /\ \A i \in DOMAIN pruned.rows : DOMAIN pruned.rows[i] = pruned.cols
    /\ (HasRun("prune") /\ AbsentName \in schema_drop) => Succeeded("prune")

C7_Witness ==
    /\ pc = "run_returned"
    /\ artifact # NoArtifact
    /\ AbsentName \in schema_drop
    /\ AbsentName \notin df.cols
    /\ pruned.cols = {"continent"}
    /\ files[TrainingPath].cols = {"continent"}

\* C8: the cleaned record set has no identifier column and no two equal rows;
\* it holds each distinct row of the extracted set (identifier removed, missing
\* values normalised) exactly once, at its first occurrence, in input order.
AfterFetch ==
    {"gate", "save_raw", "prune", "split", "save_train", "save_test", "artifact", "returned"}

\* row i of the extracted set without its identifier, missing values normalised
InputRow(i) ==
    [c \in DOMAIN collection[i] \ {"_id"} |->
        IF collection[i][c] \in {"na", "NaN"} THEN "NaN" ELSE collection[i][c]]

FirstOccurrences ==
    { i \in DOMAIN collection : \A j \in 1 .. (i - 1) : InputRow(j) # InputRow(i) }

C8_CleanedRecordSet ==
    pc \in AfterFetch =>
        /\ "_id" \notin df.cols
        /\ \A i \in DOMAIN df.rows : DOMAIN df.rows[i] = df.cols /\ "_id" \notin DOMAIN df.rows[i]
        /\ \A i, j \in DOMAIN df.rows : df.rows[i] = df.rows[j] => i = j
        /\ LET first == FirstOccurrences
           IN /\ Len(df.rows) = Cardinality(first)
              /\ \A i \in first :
                   df.rows[Cardinality({ j \in first : j <= i })] = InputRow(i)

C8_Witness ==
    /\ pc = "gate"
    /\ Len(collection) = 3
    /\ Len(df.rows) = 2
    /\ InputRow(1) = InputRow(3)
    /\ InputRow(1) # InputRow(2)
    /\ collection[1]["continent"] = "na"
    /\ collection[3]["continent"] = "NaN"

\* C9: the driver connection is constructed successfully at most once; the
\* shared handle, once set, is never reassigned; and after a successful
\* connect() or get_database() on an instance its handle is the shared handle.
C9_State ==
    /\ constructed <= 1
    /\ (last_call.op # "none" /\ last_call.ok) =>
         /\ shared_client # 0
         /\ client[last_call.inst] = shared_client
    /\ \A i \in DOMAIN client : client[i] # 0 => client[i] = shared_client

C9_Step ==
    /\ shared_client # 0 => shared_client' = shared_client
    /\ constructed' # constructed => (shared_client = 0 /\ shared_client' # 0)

\* C9: at most one successful construction, a write-once shared handle, and
\* every connected instance holding the shared handle.
C9_ConnectsOnce == [](C9_State) /\ [][C9_Step]_vars

C9_Witness ==
    /\ calls = 4
    /\ constructed = 1
    /\ shared_client # 0
    /\ \A i \in DOMAIN client : client[i] = shared_client
    /\ last_call = [op |-> "get_database", inst |-> 2, ok |-> TRUE]

\* C10 (as claimed): run logs the start marker before orchestration and the
\* completion marker only after orchestration returned; when orchestration
\* fails, run logs the failure and raises that same failure unchanged, without a
\* completion marker.
MarkersState ==
    /\ (steps # <<>> \/ pc \in AfterFetch \cup {"fetch"} \cup Failed) =>
          (log # <<>> /\ StartMarker \in Range(log))
    /\ CompletedMarker \in Range(log) =>
          (pc \in {"run_returned", "exit_zero"} /\ artifact # NoArtifact)
    /\ pc \in Failed => CompletedMarker \notin Range(log)

MarkersStep ==
    (CompletedMarker \notin Range(log) /\ CompletedMarker \in Range(log'))
        => (pc = "returned" /\ pc' = "run_returned")

RunRaises == pc = "raised" /\ pc' = "run_raised"

C10_Step_AsClaimed ==
    /\ MarkersStep
    /\ RunRaises => (Len(log') > Len(log) /\ exc' = exc)

\* C10 (as claimed): marker order, and a failed run logs and re-raises the same failure.
C10_RunLogsAndReraisesUnchanged == [](MarkersState) /\ [][C10_Step_AsClaimed]_vars

\* C10 (amended): run logs the start marker before orchestration and the
\* completion marker only after orchestration returned; when orchestration
\* fails, run logs nothing (the orchestrator has logged the failure) and raises
\* a new USvisaException that wraps the failure, without a completion marker.
C10_Step ==
    /\ MarkersStep
    /\ RunRaises =>
         /\ log' = log
         /\ Last(log) = "ERROR Data ingestion pipeline failed"
         /\ Len(exc') = Len(exc) + 1
         /\ SubSeq(exc', 1, Len(exc)) = exc
         /\ Last(exc').type = "USvisaException"
         /\ Last(exc').at = "DataIngestionPipeline.run"

\* C10 (amended): marker order, and a failed run logs nothing and raises a wrapping
\* USvisaException.
C10_RunWrapsFailure == [](MarkersState) /\ [][C10_Step]_vars

C10_Witness ==
    /\ pc = "run_raised"
    /\ Len(exc) = 4
    /\ exc[1].type = "RuntimeError"
    /\ Last(exc).at = "DataIngestionPipeline.run"
    /\ Last(steps) = "save_train"
    /\ CompletedMarker \notin Range(log)
    /\ log[1] = StartMarker

\* C11 (as claimed): for a store of 10 documents with an identifier and exactly
\* one pair of rows equal on all non-identifier columns, drop_columns [] and
\* ratio 0.2, a run that returns has written 9 feature-store rows, 7 train rows
\* and 2 test rows, and the three paths of its artifact exist.
Body(i) == [c \in DOMAIN collection[i] \ {"_id"} |-> collection[i][c]]
EqualPairs == { <<i, j>> \in (DOMAIN collection) \X (DOMAIN collection) : i < j /\ Body(i) = Body(j) }
EqualPairsOnceCleaned ==
    { <<i, j>> \in (DOMAIN collection) \X (DOMAIN collection) : i < j /\ InputRow(i) = InputRow(j) }

E2EScenario ==
    /\ Len(collection) = 10
    /\ \A i \in DOMAIN collection : "_id" \in DOMAIN collection[i]
    /\ schema_drop = {}
    /\ RatioNum * 5 = RatioDen

E2EOutcome ==
    /\ Len(files[FeatureStorePath].rows) = 9
    /\ Len(files[TrainingPath].rows) = 7
    /\ Len(files[TestingPath].rows) = 2
    /\ \A p \in {artifact.raw_file_path, artifact.train_file_path, artifact.test_file_path} :
         p \in Paths /\ files[p] # NoFile

RunReturned == pc \in {"returned", "run_returned", "exit_zero"}

C11_EndToEndRawPair ==
    (RunReturned /\ E2EScenario /\ Cardinality(EqualPairs) = 1) => E2EOutcome

\* C11 (amended): the same, for a store in which exactly one pair of rows is
\* equal on all non-identifier columns once missing-value sentinels are
\* normalised (no two further documents differ only in the sentinel they use).
C11_EndToEnd ==
    (RunReturned /\ E2EScenario /\ Cardinality(EqualPairsOnceCleaned) = 1) => E2EOutcome

C11_Witness ==
    /\ pc = "exit_zero"
    /\ E2EScenario
    /\ Cardinality(EqualPairsOnceCleaned) = 1
    /\ \E i \in DOMAIN collection : collection[i]["continent"] = "na"
    /\ E2EOutcome

\* C13: the feature-store snapshot is written before column pruning and is not
\* touched by it: after a run that returned, the feature-store file holds the
\* full cleaned record set, every column named in drop_columns included, while
\* the training and testing files hold only the columns that survive pruning.
Survivors == df.cols \ schema_drop

C13_SnapshotKeepsDroppedColumns ==
    /\ (HasRun("prune") /\ pc \notin Failed) =>
         PositionOf("save_raw") < PositionOf("prune") /\ Succeeded("save_raw")
    /\ RunReturned =>
         /\ files[FeatureStorePath] = df
         /\ \A i \in DOMAIN files[FeatureStorePath].rows :
              DOMAIN files[FeatureStorePath].rows[i] = df.cols
         /\ \A path \in {TrainingPath, TestingPath} :
              /\ files[path].cols = Survivors
              /\ \A i \in DOMAIN files[path].rows : DOMAIN files[path].rows[i] = Survivors
         /\ \A row \in Range(DropColumns(df, schema_drop).rows)
                         \cup Range(files[TrainingPath].rows)
                         \cup Range(files[TestingPath].rows) :
              Count(files[TrainingPath].rows, row) + Count(files[TestingPath].rows, row)
                = Count(DropColumns(df, schema_drop).rows, row)

C13_Witness ==
    /\ pc = "returned"
    /\ schema_drop \cap df.cols = {"has_job_experience"}
    /\ "has_job_experience" \in files[FeatureStorePath].cols
    /\ files[FeatureStorePath].rows # <<>>
    /\ files[TestingPath].cols = {"continent"}
    /\ files[TestingPath].rows # <<>>

\* C14: get_clean_dataframe removes the identifier column, then normalises
\* missing-value sentinels, then drops duplicate rows, in that order; so two
\* documents that differ only in their identifier, or only in which
\* missing-value sentinel they use, yield a single row of the cleaned set.
DifferOnlyInId(i, j) == collection[i] # collection[j] /\ Body(i) = Body(j)

\* the store gives every document its own identifier, so the two documents
\* differ in it as well
DifferOnlyInSentinel(i, j) ==
    /\ Body(i) # Body(j)
    /\ DOMAIN Body(i) = DOMAIN Body(j)
    /\ \A c \in DOMAIN Body(i) :
         Body(i)[c] # Body(j)[c] => {Body(i)[c], Body(j)[c]} = {"na", "NaN"}

C14_CleaningOrderCollapsesRows ==
    pc = "gate" =>
        /\ df = drop_duplicates(replace_na_with_nan(remove_mongo_id(
                  export_as_dataframe(collection))))
        /\ \A i, j \in DOMAIN collection :
             (i < j /\ (DifferOnlyInId(i, j) \/ DifferOnlyInSentinel(i, j))) =>
                 /\ InputRow(i) = InputRow(j)
                 /\ Count(df.rows, InputRow(i)) = 1

C14_Witness ==
    /\ pc = "gate"
    /\ Len(df.rows) = 1
    /\ \E i, j \in DOMAIN collection : i < j /\ DifferOnlyInId(i, j)
    /\ \E i, j \in DOMAIN collection : i < j /\ DifferOnlyInSentinel(i, j)

\* C15 (as claimed): cleaning never turns a non-empty record set into an empty
\* one (at least one document gives at least one cleaned row), so the gate
\* fails exactly when the cleaned set has zero rows, which happens only when the
\* collection yielded no documents.
GateFailed == HasRun("gate") /\ pc \in Failed /\ Last(steps) = "gate"
GatePassed == HasRun("gate") /\ ~GateFailed

CleaningKeepsARow ==
    (pc = "gate" \/ HasRun("gate")) =>
        /\ collection # <<>> => Len(df.rows) >= 1
        /\ Len(df.rows) = 0 => collection = <<>>

C15_GateFailsOnlyOnZeroRows ==
    /\ CleaningKeepsARow
    /\ GateFailed => Len(df.rows) = 0
    /\ GatePassed => Len(df.rows) > 0

\* C15 (amended): at least one document gives at least one cleaned row, and the
\* cleaned set has zero rows only when the collection yielded no documents; the
\* gate fails exactly when the cleaned set has zero rows or zero columns, the
\* latter when no document carries a field besides its identifier.
C15_GateFailsOnEmptyAxis ==
    /\ CleaningKeepsARow
    /\ GateFailed => (Len(df.rows) = 0 \/ df.cols = {})
    /\ GatePassed => (Len(df.rows) > 0 /\ df.cols # {})
    /\ (HasRun("gate") /\ Len(df.rows) > 0 /\ df.cols = {}) =>
         \A i \in DOMAIN collection : DOMAIN collection[i] = {"_id"}

C15_Witness ==
    /\ GateFailed
    /\ Len(collection) = 2
    /\ Len(df.rows) >= 1
    /\ df.cols = {}

\* C12: after a successful ParquetDataSaver.save(records, file_path) the parent
\* directory of file_path exists and the file holds exactly records, whatever
\* the path held before; so after any sequence of successful saves to one path
\* the file holds the records of the last of them only.
ParentDirectory(file_path) ==
    IF dirname(file_path) = "" THEN Cwd ELSE dirname(file_path)

SavesTo(file_path) == { k \in DOMAIN saves : saves[k].file_path = file_path }
LastSaveTo(file_path) ==
    saves[CHOOSE k \in SavesTo(file_path) : \A l \in SavesTo(file_path) : l <= k]

C12_State ==
    \A file_path \in SavePaths :
        SavesTo(file_path) # {} =>
            /\ files[file_path] = LastSaveTo(file_path).data
            /\ ParentDirectory(file_path) \in dirs

C12_Step ==
    saves' # saves =>
        /\ saves' = Append(saves, Last(saves'))
        /\ files' = [files EXCEPT ![Last(saves').file_path] = Last(saves').data]
        /\ Last(saves').before = files[Last(saves').file_path]
        /\ ParentDirectory(Last(saves').file_path) \in dirs'
        /\ exc' = NoError

C12_SaveOverwrites == [](C12_State) /\ [][C12_Step]_vars

C12_Witness ==
    /\ Len(saves) = 3
    /\ saves[1].file_path = TrainingPath /\ saves[1].before = StaleFrame
    /\ saves[2].file_path = TestingPath /\ saves[2].before = NoFile
    /\ saves[3].file_path = TrainingPath
    /\ saves[3].before = saves[1].data /\ saves[3].data # saves[1].data
    /\ files[TrainingPath] = saves[3].data
    /\ files[BarePath] = NoFile

====
